---- MODULE Spec2Model ----
(***************************************************************************)
(* Model of scripts/generate-file-icons.py: the document-icon generator    *)
(* of Open 2D Studio.  main() renders, for every file-type of COLORS and   *)
(* every size of ICO_SIZES, one frame (page, accent bar, logo, label) and  *)
(* hands the frames of a file-type, sorted largest first, to the ICO       *)
(* writer.                                                                 *)
(*                                                                         *)
(* Coordinates.  The script mixes integer pixel coordinates with floats    *)
(* (size * 0.55, logo_size / 2, r * 0.45, ...).  Every such float is a     *)
(* multiple of 1/1600 pixel when computed exactly, so a coordinate is kept *)
(* here as an integer number of 1/1600 pixel: Px(n) is n whole pixels.     *)
(* int(x) of a non-negative float is truncation: int(size * 0.08) is       *)
(* (size * 8) \div 100.                                                    *)
(***************************************************************************)
EXTENDS Integers, Sequences, FiniteSets, TLC

VARIABLES
    pc,          \* position of main()/generate_icon()
    dir_exists,  \* whether ICONS_DIR exists on disk
    ext_i,       \* index into EXTS of the file-type being generated (0: none yet)
    size_i,      \* index into ICO_SIZES of the frame being drawn (0: none yet)
    images,      \* generate_icon's local list `images`
    img,         \* the canvas being drawn: [ext, size, ops]
    page,        \* pl, pt, pr, pb, fold returned by draw_document_page
    logo,        \* logo_area_top/bottom, centre and logo_size of generate_icon
    fonts,       \* which named font files the system resolves
    saved        \* the calls made to the ICO writer, in order

vars == <<pc, dir_exists, ext_i, size_i, images, img, page, logo, fonts, saved>>

----------------------------------------------------------------------------
(* Bounds *)

\* Largest canvas size for which draw_document_page is explored on its own.
MaxSize == 300

----------------------------------------------------------------------------
(* Constants of the script *)

ICO_SIZES == <<16, 32, 48, 64, 256>>

O2D == <<"o", "2", "d">>
DXF == <<"d", "x", "f">>

\* The keys of COLORS in dictionary (insertion) order.
EXTS == <<O2D, DXF>>

COLORS(ext) ==
    IF ext = O2D
    THEN [accent      |-> <<59, 130, 246>>,
          accent_dark |-> <<37, 99, 235>>,
          label_bg    |-> <<59, 130, 246>>,
          label_text  |-> <<255, 255, 255>>]
    ELSE [accent      |-> <<34, 197, 94>>,
          accent_dark |-> <<22, 163, 74>>,
          label_bg    |-> <<34, 197, 94>>,
          label_text  |-> <<255, 255, 255>>]

LOGO_BG     == <<25, 28, 50>>
LOGO_SQUARE == <<230, 57, 80>>
LOGO_CIRCLE == <<0, 230, 118>>
LOGO_LINE   == <<255, 255, 255>>
LOGO_DOT    == <<230, 57, 100>>

SHADOW_COLOR == <<180, 180, 180>>
PAGE_FILL    == <<255, 255, 255>>
PAGE_OUTLINE == <<200, 200, 200>>
FOLD_FILL    == <<230, 230, 235>>
NoColor      == <<>>

----------------------------------------------------------------------------
(* Arithmetic helpers *)

Max(a, b) == IF a >= b THEN a ELSE b
Min(a, b) == IF a <= b THEN a ELSE b

\* n whole pixels, in units of 1/1600 pixel.
Px(n) == n * 1600

\* int(s * 0.pp) for a non-negative integer s: truncation toward zero.
IntPct(s, p) == (s * p) \div 100

\* round(s * 0.pp), rounding to nearest: what a "round" rule would compute.
\* No tie occurs for the percentages and sizes used below.
RoundPct(s, p) == (s * p + 50) \div 100

----------------------------------------------------------------------------
(* str.upper() *)

LowerLetters == <<"a","b","c","d","e","f","g","h","i","j","k","l","m",
                  "n","o","p","q","r","s","t","u","v","w","x","y","z">>
UpperLetters == <<"A","B","C","D","E","F","G","H","I","J","K","L","M",
                  "N","O","P","Q","R","S","T","U","V","W","X","Y","Z">>

UpperChar(c) ==
    IF \E i \in 1..Len(LowerLetters) : LowerLetters[i] = c
    THEN UpperLetters[CHOOSE i \in 1..Len(LowerLetters) : LowerLetters[i] = c]
    ELSE c

Upper(str) == [i \in 1..Len(str) |-> UpperChar(str[i])]

----------------------------------------------------------------------------
(* Draw operations recorded on a canvas *)

Shape(kind, pts, fill, outline, width, radius) ==
    [kind |-> kind, pts |-> pts, fill |-> fill, outline |-> outline,
     width |-> width, radius |-> radius,
     text |-> <<>>, font |-> "none", font_size |-> 0]

\* draw.text: the anchor depends on the font's measured bounding box
\* (draw.textbbox), which belongs to the imaging library; it is not recorded.
Text(text, fill, font, font_size) ==
    [kind |-> "text", pts |-> <<>>, fill |-> fill, outline |-> NoColor,
     width |-> 0, radius |-> 0,
     text |-> text, font |-> font, font_size |-> font_size]

\* Image.new("RGBA", (size, size), (0, 0, 0, 0))
NewImage(ext, size) == [ext |-> ext, size |-> size, ops |-> <<>>]

NoImage == [ext |-> <<>>, size |-> 0, ops |-> <<>>]

----------------------------------------------------------------------------
(* draw_document_page *)

\* Variants: the margin rounded to nearest; the margin with a slipped
\* decimal point (0.8 for 0.08).
margin_rounded(s) == Max(1, RoundPct(s, 8))
margin_slipped(s) == Max(1, IntPct(s, 80))

margin(s) == Max(1, IntPct(s, 8))

fold_of(s) == Max(2, IntPct(s, 22))

\* Variant: 0.2 for 0.02.
shadow_offset_slipped(s) == Max(1, IntPct(s, 20))

shadow_offset(s) == Max(1, IntPct(s, 2))

\* The page rectangle and fold, in whole pixels.
PageGeometry(s) ==
    [page_left   |-> margin(s),
     page_top    |-> margin(s),
     page_right  |-> s - margin(s) - 1,
     page_bottom |-> s - margin(s) - 1,
     fold        |-> fold_of(s)]

ShadowDrawn(s) == s >= 32

ShadowOps(s) ==
    LET g  == PageGeometry(s)
        so == shadow_offset(s)
    IN  IF ShadowDrawn(s)
        THEN << Shape("shadow",
                      << <<Px(g.page_left + so), Px(g.page_top + g.fold + so)>>,
                         <<Px(g.page_right - g.fold + so), Px(g.page_top + so)>>,
                         <<Px(g.page_right + so), Px(g.page_top + g.fold + so)>>,
                         <<Px(g.page_right + so), Px(g.page_bottom + so)>>,
                         <<Px(g.page_left + so), Px(g.page_bottom + so)>> >>,
                      SHADOW_COLOR, NoColor, 0, 0) >>
        ELSE << >>

PageOps(s) ==
    LET g == PageGeometry(s)
    IN  << Shape("page",
                 << <<Px(g.page_left), Px(g.page_top)>>,
                    <<Px(g.page_right - g.fold), Px(g.page_top)>>,
                    <<Px(g.page_right), Px(g.page_top + g.fold)>>,
                    <<Px(g.page_right), Px(g.page_bottom)>>,
                    <<Px(g.page_left), Px(g.page_bottom)>> >>,
                 PAGE_FILL, PAGE_OUTLINE, 0, 0),
           Shape("fold",
                 << <<Px(g.page_right - g.fold), Px(g.page_top)>>,
                    <<Px(g.page_right), Px(g.page_top + g.fold)>>,
                    <<Px(g.page_right - g.fold), Px(g.page_top + g.fold)>> >>,
                 FOLD_FILL, PAGE_OUTLINE, 0, 0) >>

\* The draw operations of draw_document_page(draw, size), in order.
draw_document_page(s) == ShadowOps(s) \o PageOps(s)

----------------------------------------------------------------------------
(* draw_accent_bar *)

bar_height(size) == Max(1, IntPct(size, 4))

bar_margin(size) == Max(0, IntPct(size, 2))

\* size * 0.55, in units of 1/1600 pixel.
AccentWidth(size) == size * 880

draw_accent_bar(g, size, colors) ==
    << Shape("accent",
             << <<Px(g.page_left + bar_margin(size)),
                  Px(g.page_top + bar_margin(size))>>,
                <<Px(g.page_left) + AccentWidth(size),
                  Px(g.page_top + bar_margin(size) + bar_height(size))>> >>,
             colors.accent, NoColor, 0, 0) >>

----------------------------------------------------------------------------
(* Logo placement (generate_icon) and draw_app_logo *)

logo_gap(size) == Max(1, IntPct(size, 4))

logo_reserve(size) == Max(4, IntPct(size, 20))

\* min((pr - pl) * 0.55, (logo_area_bottom - logo_area_top) * 0.85),
\* in units of 1/1600 pixel.
\* Variant: max for min.
logo_size_max(width, height) == Max(width * 880, height * 1360)

logo_size_of(width, height) == Min(width * 880, height * 1360)

LogoPlacement(g, size) ==
    LET logo_area_top    == g.page_top + g.fold + logo_gap(size)
        logo_area_bottom == g.page_bottom - logo_reserve(size)
    IN  [logo_area_top    |-> logo_area_top,
         logo_area_bottom |-> logo_area_bottom,
         logo_center_y    |-> (logo_area_top + logo_area_bottom) * 800,
         logo_center_x    |-> (g.page_left + g.page_right) * 800,
         logo_size        |-> logo_size_of(g.page_right - g.page_left,
                                           logo_area_bottom - logo_area_top)]

LogoDrawn(size) == size >= 32

\* bg_margin = r * 0.1, in units of 1/1600 pixel.
bg_margin_of(r) == r \div 10

draw_app_logo(cx, cy, logo_size) ==
    LET r         == logo_size \div 2
        bg_margin == bg_margin_of(r)
        sq_half   == (r * 11) \div 40         \* sq_size / 2, sq_size = r * 0.55
        sq_x      == cx - (r * 9) \div 20     \* cx - r * 0.45
        sq_y      == cy - (r * 9) \div 20
        line_w    == Max(1, (r * 3) \div 40000)   \* int(r * 0.12), r in pixels
        circ_r    == (r * 7) \div 20
        circ_x    == cx + (r * 7) \div 20
        circ_y    == cy + (r * 7) \div 20
        line_x1   == cx - (r * 13) \div 20
        line_y1   == cy + (r * 11) \div 20
        line_x2   == cx + (r * 3) \div 5
        line_y2   == cy - (r * 3) \div 5
        dot_r     == Px(Max(1, r \div 16000))     \* int(r * 0.1), r in pixels
    IN  << Shape("logo_bg",
                 << <<cx - r - bg_margin, cy - r - bg_margin>>,
                    <<cx + r + bg_margin, cy + r + bg_margin>> >>,
                 LOGO_BG, NoColor, 0, Max(1, r \div 6400)),
           Shape("logo_square",
                 << <<sq_x - sq_half, sq_y - sq_half>>,
                    <<sq_x + sq_half, sq_y + sq_half>> >>,
                 NoColor, LOGO_SQUARE, line_w, 0),
           Shape("logo_circle",
                 << <<circ_x - circ_r, circ_y - circ_r>>,
                    <<circ_x + circ_r, circ_y + circ_r>> >>,
                 NoColor, LOGO_CIRCLE, line_w, 0),
           Shape("logo_line",
                 << <<line_x1, line_y1>>, <<line_x2, line_y2>> >>,
                 LOGO_LINE, NoColor, Max(1, r \div 16000), 0),
           Shape("logo_dot",
                 << <<line_x1 - dot_r, line_y1 - dot_r>>,
                    <<line_x1 + dot_r, line_y1 + dot_r>> >>,
                 LOGO_DOT, NoColor, 0, 0),
           Shape("logo_dot",
                 << <<line_x2 - dot_r, line_y2 - dot_r>>,
                    <<line_x2 + dot_r, line_y2 + dot_r>> >>,
                 LOGO_DOT, NoColor, 0, 0) >>

----------------------------------------------------------------------------
(* draw_extension_label *)

label_height(size) == Max(4, IntPct(size, 18))

\* Variant: the label margin floored at 1 like the other offsets.
label_margin_floor1(size) == Max(1, IntPct(size, 2))

label_margin(size) == Max(0, IntPct(size, 2))

\* max(6, int(label_height * 0.8))
font_size_of(size) == Max(6, (label_height(size) * 8) \div 10)

\* Variant: the bar reaching down to page_bottom.
LabelBarToBottom(g, size, colors) ==
    Shape("label",
          << <<Px(g.page_left + label_margin(size)),
               Px(g.page_bottom - label_height(size))>>,
             <<Px(g.page_right - label_margin(size)),
               Px(g.page_bottom)>> >>,
          colors.label_bg, NoColor, 0, 0)

LabelBar(g, size, colors) ==
    Shape("label",
          << <<Px(g.page_left + label_margin(size)),
               Px(g.page_bottom - label_height(size))>>,
             <<Px(g.page_right - label_margin(size)),
               Px(g.page_bottom - label_margin(size))>> >>,
          colors.label_bg, NoColor, 0, 0)

\* ImageFont.truetype(name, font_size): the font, or OSError when the font
\* file cannot be resolved.
Truetype(name, resolves) ==
    IF resolves THEN [font |-> name, exc |-> "none"]
                ELSE [font |-> "none", exc |-> "OSError"]

\* Variant: the inner try without its handler.
ResolveFontNoInnerHandler(bold_ok, regular_ok) ==
    LET bold == Truetype("arialbd.ttf", bold_ok)
    IN  IF bold.exc = "none" THEN bold
        ELSE Truetype("arial.ttf", regular_ok)

\* The try/except chain of draw_extension_label.  Both handlers catch
\* OSError; ImageFont.load_default() is the last resort.
ResolveFont(bold_ok, regular_ok) ==
    LET bold == Truetype("arialbd.ttf", bold_ok)
    IN  IF bold.exc = "none" THEN bold
        ELSE LET regular == Truetype("arial.ttf", regular_ok)
             IN  IF regular.exc = "none" THEN regular
                 ELSE [font |-> "default", exc |-> "none"]

\* Variant: the dot dropped below 16 only.
label_text_strict(ext, size) ==
    IF size < 16 THEN Upper(ext) ELSE <<".">> \o Upper(ext)

\* label_text of generate_icon
label_text_of(ext, size) ==
    IF size <= 16 THEN Upper(ext) ELSE <<".">> \o Upper(ext)

----------------------------------------------------------------------------
(* sorted(images, key=lambda im: im.size[0], reverse=True) *)

\* Variant: reverse=True forgotten.
BeforeAscending(a, b) == a.size <= b.size

\* Whether a goes before b: a stable sort with reverse=True keeps the
\* original order of equal keys, so only a strictly larger key overtakes.
Before(a, b) == a.size >= b.size

RECURSIVE InsertSorted(_, _)
InsertSorted(sorted, im) ==
    IF sorted = << >> THEN <<im>>
    ELSE IF Before(Head(sorted), im)
         THEN <<Head(sorted)>> \o InsertSorted(Tail(sorted), im)
         ELSE <<im>> \o sorted

RECURSIVE SortedImages(_)
SortedImages(seq) ==
    IF seq = << >> THEN << >>
    ELSE InsertSorted(SortedImages(SubSeq(seq, 1, Len(seq) - 1)), seq[Len(seq)])

\* os.path.join(ICONS_DIR, f"{ext}-document.ico"), as the file name's parts.
OutputPath(ext) == ext \o <<"-document.ico">>

----------------------------------------------------------------------------
(* The program: main() and generate_icon() *)

NoPage == [page_left |-> 0, page_top |-> 0, page_right |-> 0,
           page_bottom |-> 0, fold |-> 0]

NoLogo == [logo_area_top |-> 0, logo_area_bottom |-> 0, logo_center_y |-> 0,
           logo_center_x |-> 0, logo_size |-> 0]

\* The font files installed on the system: whether "arialbd.ttf" and
\* "arial.ttf" resolve.  The environment decides; it does not change while
\* the script runs.
FontEnvs == [bold : BOOLEAN, regular : BOOLEAN]

Init ==
    /\ pc = "main"
    /\ dir_exists \in BOOLEAN
    /\ ext_i = 0
    /\ size_i = 0
    /\ images = << >>
    /\ img = NoImage
    /\ page = NoPage
    /\ logo = NoLogo
    /\ fonts \in FontEnvs
    /\ saved = << >>

\* os.makedirs(ICONS_DIR, exist_ok=True)
MakeDirs ==
    /\ pc = "main"
    /\ dir_exists' = TRUE
    /\ pc' = "for_ext"
    /\ UNCHANGED <<ext_i, size_i, images, img, page, logo, fonts, saved>>

\* for ext, colors in COLORS.items(): generate_icon(ext, colors); images = []
\* After the last file-type main() prints the summary and returns.
NextExt ==
    /\ pc = "for_ext"
    /\ IF ext_i < Len(EXTS)
       THEN /\ ext_i' = ext_i + 1
            /\ images' = << >>
            /\ size_i' = 0
            /\ pc' = "for_size"
       ELSE /\ pc' = "done"
            /\ UNCHANGED <<ext_i, images, size_i>>
    /\ UNCHANGED <<dir_exists, img, page, logo, fonts, saved>>

\* for size in ICO_SIZES: img = Image.new(...); draw = ImageDraw.Draw(img)
NextSize ==
    /\ pc = "for_size"
    /\ IF size_i < Len(ICO_SIZES)
       THEN /\ size_i' = size_i + 1
            /\ img' = NewImage(EXTS[ext_i], ICO_SIZES[size_i + 1])
            /\ pc' = "page"
       ELSE /\ pc' = "save"
            /\ UNCHANGED <<size_i, img>>
    /\ UNCHANGED <<dir_exists, ext_i, images, page, logo, fonts, saved>>

\* pl, pt, pr, pb, fold = draw_document_page(draw, size)
DrawDocumentPage ==
    /\ pc = "page"
    /\ img' = [img EXCEPT !.ops = @ \o draw_document_page(img.size)]
    /\ page' = PageGeometry(img.size)
    /\ pc' = "accent"
    /\ UNCHANGED <<dir_exists, ext_i, size_i, images, logo, fonts, saved>>

\* Variant: a different threshold for the accent bar.
AccentDrawnAbove32(size) == size > 32

AccentDrawn(size) == size >= 32

\* if size >= 32: draw_accent_bar(draw, pl, pt, fold, size, colors)
DrawAccentBar ==
    /\ pc = "accent"
    /\ img' = IF AccentDrawn(img.size)
              THEN [img EXCEPT !.ops =
                        @ \o draw_accent_bar(page, img.size, COLORS(img.ext))]
              ELSE img
    /\ pc' = "logo"
    /\ UNCHANGED <<dir_exists, ext_i, size_i, images, page, logo, fonts, saved>>

\* logo_area_top ... logo_size; if size >= 32: draw_app_logo(...)
DrawAppLogo ==
    /\ pc = "logo"
    /\ logo' = LogoPlacement(page, img.size)
    /\ img' = IF LogoDrawn(img.size)
              THEN [img EXCEPT !.ops =
                        @ \o draw_app_logo(logo'.logo_center_x,
                                           logo'.logo_center_y,
                                           logo'.logo_size)]
              ELSE img
    /\ pc' = "label"
    /\ UNCHANGED <<dir_exists, ext_i, size_i, images, page, fonts, saved>>

\* label_text = ...; draw_extension_label(draw, label_text, pl, pr, pb, size,
\* colors).  An exception leaving the font chain would end the process
\* after the label bar has been drawn.
DrawExtensionLabel ==
    /\ pc = "label"
    /\ LET res    == ResolveFont(fonts.bold, fonts.regular)
           colors == COLORS(img.ext)
           bar    == LabelBar(page, img.size, colors)
           txt    == Text(label_text_of(img.ext, img.size), colors.label_text,
                          res.font, font_size_of(img.size))
       IN  IF res.exc = "none"
           THEN /\ img' = [img EXCEPT !.ops = @ \o <<bar, txt>>]
                /\ pc' = "append"
           ELSE /\ img' = [img EXCEPT !.ops = @ \o <<bar>>]
                /\ pc' = "crashed"
    /\ UNCHANGED <<dir_exists, ext_i, size_i, images, page, logo, fonts, saved>>

\* images.append(img)
AppendImage ==
    /\ pc = "append"
    /\ images' = Append(images, img)
    /\ pc' = "for_size"
    /\ UNCHANGED <<dir_exists, ext_i, size_i, img, page, logo, fonts, saved>>

\* images_sorted = sorted(...); images_sorted[0].save(output_path,
\* format="ICO", append_images=images_sorted[1:]); return output_path
Save ==
    /\ pc = "save"
    /\ LET images_sorted == SortedImages(images)
       IN  saved' = Append(saved,
                           [output_path   |-> OutputPath(EXTS[ext_i]),
                            base          |-> images_sorted[1],
                            append_images |-> Tail(images_sorted)])
    /\ pc' = "for_ext"
    /\ UNCHANGED <<dir_exists, ext_i, size_i, images, img, page, logo, fonts>>

Next ==
    \/ MakeDirs
    \/ NextExt
    \/ NextSize
    \/ DrawDocumentPage
    \/ DrawAccentBar
    \/ DrawAppLogo
    \/ DrawExtensionLabel
    \/ AppendImage
    \/ Save

Spec == Init /\ [][Next]_vars

----------------------------------------------------------------------------
(* draw_document_page on an arbitrary canvas size 16..MaxSize *)

InitPage ==
    /\ pc = "page"
    /\ dir_exists = TRUE
    /\ ext_i = 1
    /\ size_i = 1
    /\ images = << >>
    /\ \E s \in 16..MaxSize : img = NewImage(EXTS[1], s)
    /\ page = NoPage
    /\ logo = NoLogo
    /\ fonts \in FontEnvs
    /\ saved = << >>

SpecPage == InitPage /\ [][DrawDocumentPage]_vars

----------------------------------------------------------------------------
(* Helpers for the properties *)

Range(seq) == {seq[i] : i \in 1..Len(seq)}

\* The frames handed to the ICO writer by one save call, in order.
HandedFrames(call) == <<call.base>> \o call.append_images

\* Every frame whose draw sequence is complete.
FinishedFrames ==
    Range(images)
    \cup (IF pc = "append" THEN {img} ELSE {})
    \cup UNION {Range(HandedFrames(saved[k])) : k \in 1..Len(saved)}

Kinds(f) == {f.ops[i].kind : i \in 1..Len(f.ops)}

OpsOfKind(f, kind) == {f.ops[i] : i \in {j \in 1..Len(f.ops) : f.ops[j].kind = kind}}

TheOp(f, kind) == CHOOSE op \in OpsOfKind(f, kind) : TRUE

LogoKinds == {"logo_bg", "logo_square", "logo_circle", "logo_line", "logo_dot"}

\* m is the integer part of s * p / 100.
IsFloorPct(m, s, p) == 100 * m <= s * p /\ s * p < 100 * (m + 1)

\* The frame on the canvas has been fully drawn.
FrameDone == pc = "append"

----------------------------------------------------------------------------
(* C1 *)

\* C1: every sequence of frames handed to the ICO writer has exactly 5
\* frames with sizes 256, 64, 48, 32, 16 in that order, all of them frames
\* of that call's own file-type and exactly the frames rendered in that run,
\* while the frames are rendered (appended to images) in the order 16, 32,
\* 48, 64, 256.
C1_FramesDescending ==
    /\ \A k \in 1..Len(saved) :
          LET fr == HandedFrames(saved[k])
          IN  /\ Len(fr) = 5
              /\ [i \in 1..Len(fr) |-> fr[i].size] = <<256, 64, 48, 32, 16>>
              /\ \A i \in 1..Len(fr) : fr[i].ext = EXTS[k]
              /\ saved[k].output_path = OutputPath(EXTS[k])
    /\ \A i \in 1..Len(images) :
          /\ images[i].size = <<16, 32, 48, 64, 256>>[i]
          /\ images[i].ext = EXTS[ext_i]
    /\ (pc = "for_ext" /\ Len(saved) > 0)
          => Range(HandedFrames(saved[Len(saved)])) = Range(images)

C1_Witness == pc = "done" /\ Len(saved) = 2

----------------------------------------------------------------------------
(* C2 *)

\* C2: a finished frame of size 16 holds only the page shape (page and
\* fold) and the label (bar and text): no shadow, no accent bar, no logo; a
\* finished frame of size >= 32 holds the shadow, the accent bar, every part
\* of the logo and the label.
C2_FidelityCutoff ==
    \A f \in FinishedFrames :
        /\ f.size = 16 => Kinds(f) = {"page", "fold", "label", "text"}
        /\ f.size >= 32 =>
              Kinds(f) = {"shadow", "page", "fold", "accent", "label", "text"}
                         \cup LogoKinds
        /\ ("shadow" \in Kinds(f)) = ("accent" \in Kinds(f))
        /\ ("accent" \in Kinds(f)) = (Kinds(f) \cap LogoKinds # {})

C2_Witness ==
    /\ \E f \in FinishedFrames : f.size = 16
    /\ \E f \in FinishedFrames : f.size = 32
    /\ \E f \in FinishedFrames : f.size = 256

----------------------------------------------------------------------------
(* C3 *)

\* C3: for every canvas size s >= 16, once draw_document_page has run the
\* margin (page_left) is >= 1, the fold is >= 2, and the page rectangle has
\* page_right > page_left and page_bottom > page_top.
C3_PageGeometry ==
    (pc = "accent" /\ img.size >= 16) =>
        /\ page.page_left >= 1
        /\ page.page_top >= 1
        /\ page.fold >= 2
        /\ page.page_right > page.page_left
        /\ page.page_bottom > page.page_top

C3_Witness == pc = "accent" /\ img.size = 25 /\ page.page_right > 0

----------------------------------------------------------------------------
(* C4 *)

ExpectedUpper(ext) ==
    IF ext = O2D THEN <<"O", "2", "D">> ELSE <<"D", "X", "F">>

\* C4: in every finished frame the text handed to the label renderer is "."
\* followed by the uppercase extension when the size is greater than 16, and
\* the bare uppercase extension when the size is 16.
C4_LabelText ==
    \A f \in FinishedFrames :
        /\ Cardinality(OpsOfKind(f, "text")) = 1
        /\ TheOp(f, "text").text =
              IF f.size > 16 THEN <<".">> \o ExpectedUpper(f.ext)
                             ELSE ExpectedUpper(f.ext)

C4_Witness ==
    /\ \E f \in FinishedFrames : f.size = 16 /\ f.ext = O2D
    /\ \E f \in FinishedFrames : f.size = 16 /\ f.ext = DXF
    /\ \E f \in FinishedFrames : f.size = 32 /\ f.ext = DXF

----------------------------------------------------------------------------
(* C5 *)

\* C5: for every size of the list, when the frame is done: the vertical logo
\* region runs from below page_top + fold to page_bottom - max(4, 20% of
\* size) and has positive height; the logo diameter is min(55% of the page
\* width, 85% of the region height) and positive; the logo with its backdrop
\* (half-extent r + 0.1 r about the centre) lies below page_top + fold, above
\* the top edge of the label bar, and between page_left and page_right; and
\* the backdrop drawn (sizes >= 32) is exactly that box.
C5_LogoInset ==
    FrameDone =>
        LET d      == logo.logo_size
            r      == d \div 2
            h      == r + r \div 10
            cx     == logo.logo_center_x
            cy     == logo.logo_center_y
            height == logo.logo_area_bottom - logo.logo_area_top
            width  == page.page_right - page.page_left
            label_top == TheOp(img, "label").pts[1][2]
        IN  /\ logo.logo_area_top > page.page_top + page.fold
            /\ \E q \in 0..img.size :
                  /\ IsFloorPct(q, img.size, 20)
                  /\ logo.logo_area_bottom = page.page_bottom - Max(4, q)
            /\ height > 0
            /\ d > 0
            /\ 100 * d = Min(55 * Px(width), 85 * Px(height))
            /\ 2 * cx = Px(page.page_left + page.page_right)
            /\ 2 * cy = Px(logo.logo_area_top + logo.logo_area_bottom)
            /\ cy - h > Px(page.page_top + page.fold)
            /\ cy + h < label_top
            /\ cx - h > Px(page.page_left)
            /\ cx + h < Px(page.page_right)
            /\ img.size >= 32 =>
                  TheOp(img, "logo_bg").pts = << <<cx - h, cy - h>>,
                                                 <<cx + h, cy + h>> >>

C5_Witness ==
    /\ FrameDone
    /\ img.size = 32
    /\ "logo_bg" \in Kinds(img)
    /\ logo.logo_size = 17680

----------------------------------------------------------------------------
(* C6 *)

\* The offsets as they appear in the finished frame on the canvas, in units
\* of 1/1600 pixel (the shadow offset and the accent bar's offsets only where
\* those shapes are drawn).
FrameOffsets ==
    LET label == TheOp(img, "label")
    IN  [margin       |-> Px(page.page_left),
         fold         |-> Px(page.fold),
         label_height |-> Px(page.page_bottom) - label.pts[1][2],
         label_margin |-> label.pts[1][1] - Px(page.page_left),
         logo_gap     |-> Px(logo.logo_area_top - page.page_top - page.fold)]

ShadowOffsetDrawn == TheOp(img, "shadow").pts[5][1] - Px(page.page_left)

BarHeightDrawn == TheOp(img, "accent").pts[2][2] - TheOp(img, "accent").pts[1][2]

BarMarginDrawn == TheOp(img, "accent").pts[1][1] - Px(page.page_left)

WholePixels(u) == u % 1600 = 0

\* C6 as claimed: every geometric offset of the finished frame (margin,
\* fold, shadow offset, label height, label margin, accent bar height,
\* accent bar margin, logo gap) is an integer >= 1.
C6_AllOffsetsAtLeast1 ==
    FrameDone =>
        /\ \A k \in DOMAIN FrameOffsets :
              WholePixels(FrameOffsets[k]) /\ FrameOffsets[k] >= Px(1)
        /\ img.size >= 32 =>
              /\ WholePixels(ShadowOffsetDrawn) /\ ShadowOffsetDrawn >= Px(1)
              /\ WholePixels(BarHeightDrawn) /\ BarHeightDrawn >= Px(1)
              /\ WholePixels(BarMarginDrawn) /\ BarMarginDrawn >= Px(1)

\* C6, amended: every geometric offset of the finished frame is a
\* non-negative integer; margin, shadow offset, accent bar height and logo
\* gap are >= 1, fold is >= 2 and label height is >= 4; the label margin
\* and the accent bar margin are floored at 0, not 1: both are 0 below size
\* 50 (label margin at 16, 32, 48; bar margin at 32, 48) and >= 1 at 64 and
\* 256.
C6_OffsetsAmended ==
    FrameDone =>
        /\ \A k \in DOMAIN FrameOffsets :
              WholePixels(FrameOffsets[k]) /\ FrameOffsets[k] >= 0
        /\ FrameOffsets.margin >= Px(1)
        /\ FrameOffsets.fold >= Px(2)
        /\ FrameOffsets.label_height >= Px(4)
        /\ FrameOffsets.logo_gap >= Px(1)
        /\ (FrameOffsets.label_margin = 0) = (img.size < 50)
        /\ img.size >= 32 =>
              /\ WholePixels(ShadowOffsetDrawn) /\ ShadowOffsetDrawn >= Px(1)
              /\ WholePixels(BarHeightDrawn) /\ BarHeightDrawn >= Px(1)
              /\ WholePixels(BarMarginDrawn) /\ BarMarginDrawn >= 0
              /\ (BarMarginDrawn = 0) = (img.size < 50)

C6_Witness ==
    /\ FrameDone
    /\ img.size = 16
    /\ FrameOffsets.label_margin = 0
    /\ FrameOffsets.label_height = Px(4)

----------------------------------------------------------------------------
(* C7 *)

\* C7 as claimed: after draw_document_page, margin = max(1, round(0.08 s))
\* and fold = max(2, round(0.22 s)), rounding to nearest, and the page
\* rectangle is derived from that margin.
C7_MarginFoldRounded ==
    pc = "accent" =>
        /\ page.page_left = Max(1, RoundPct(img.size, 8))
        /\ page.fold = Max(2, RoundPct(img.size, 22))
        /\ page.page_top = page.page_left
        /\ page.page_right = img.size - page.page_left - 1
        /\ page.page_bottom = img.size - page.page_left - 1

\* C7, amended: after draw_document_page, margin = max(1, floor(0.08 s)) and
\* fold = max(2, floor(0.22 s)): the products are truncated, not rounded to
\* nearest; the page rectangle is (margin, margin, s - margin - 1,
\* s - margin - 1).
C7_MarginFoldTruncated ==
    pc = "accent" =>
        /\ \E m \in 0..img.size :
              /\ IsFloorPct(m, img.size, 8)
              /\ page.page_left = Max(1, m)
        /\ \E f \in 0..img.size :
              /\ IsFloorPct(f, img.size, 22)
              /\ page.fold = Max(2, f)
        /\ page.page_top = page.page_left
        /\ page.page_right = img.size - page.page_left - 1
        /\ page.page_bottom = img.size - page.page_left - 1

C7_Witness ==
    /\ pc = "accent"
    /\ img.size = 48
    /\ page.page_left = 3
    /\ page.fold = 10

----------------------------------------------------------------------------
(* C8 *)

ExpectedLabelBg(ext) ==
    IF ext = O2D THEN <<59, 130, 246>> ELSE <<34, 197, 94>>

\* The label bar of a finished frame f sits at the claimed place, except
\* possibly for its bottom edge: top edge at page_bottom - label_height with
\* label_height = max(4, floor(0.18 size)), and from page_left + m to
\* page_right - m for a margin m >= 0, left of right, filled with label_bg.
LabelBarPlaced(f, m) ==
    LET bar == TheOp(f, "label")
        g   == [l |-> TheOp(f, "page").pts[1][1],
                r |-> TheOp(f, "page").pts[4][1],
                b |-> TheOp(f, "page").pts[4][2]]
    IN  /\ \E q \in 0..f.size :
              /\ IsFloorPct(q, f.size, 18)
              /\ bar.pts[1][2] = g.b - Px(Max(4, q))
        /\ bar.pts[1][1] = g.l + Px(m)
        /\ bar.pts[2][1] = g.r - Px(m)
        /\ bar.pts[1][1] < bar.pts[2][1]
        /\ bar.fill = ExpectedLabelBg(f.ext)

LabelBottom(f) == TheOp(f, "label").pts[2][2]

PageBottom(f) == TheOp(f, "page").pts[4][2]

\* C8 as claimed: in every finished frame the label bar extends from
\* page_bottom - label_height down to page_bottom, from page_left + margin
\* to page_right - margin, and is filled with the scheme's label_bg.
C8_LabelBarToPageBottom ==
    \A f \in FinishedFrames :
        /\ Cardinality(OpsOfKind(f, "label")) = 1
        /\ \E m \in 0..f.size : LabelBarPlaced(f, m)
        /\ LabelBottom(f) = PageBottom(f)

\* C8, amended: in every finished frame the label bar extends from
\* page_bottom - label_height down to page_bottom - label_margin, from
\* page_left + label_margin to page_right - label_margin, and is filled with
\* the scheme's label_bg; label_margin = floor(0.02 size), so the bar
\* reaches page_bottom only at sizes 16, 32 and 48 and stops 1 pixel short
\* at 64 and 5 pixels short at 256.
C8_LabelBarAmended ==
    \A f \in FinishedFrames :
        /\ Cardinality(OpsOfKind(f, "label")) = 1
        /\ \E m \in 0..f.size :
              /\ IsFloorPct(m, f.size, 2)
              /\ LabelBarPlaced(f, m)
              /\ LabelBottom(f) = PageBottom(f) - Px(m)

C8_Witness ==
    /\ \E f \in FinishedFrames :
          f.size = 64 /\ f.ext = O2D /\ LabelBottom(f) = PageBottom(f) - Px(1)
    /\ \E f \in FinishedFrames :
          f.size = 16 /\ f.ext = DXF /\ LabelBottom(f) = PageBottom(f)

----------------------------------------------------------------------------
(* C9 *)

ExpectedFont ==
    IF fonts.bold THEN "arialbd.ttf"
    ELSE IF fonts.regular THEN "arial.ttf"
    ELSE "default"

\* C9: whichever of the bold and regular fonts fail to resolve, no failure
\* leaves draw_extension_label (the process never crashes), and every
\* finished frame has exactly one label text, drawn in the first font of the
\* order bold, regular, default that resolves.
C9_FontFallback ==
    /\ pc # "crashed"
    /\ pc \in {"append", "for_size", "save", "for_ext", "done"} /\ size_i > 0
          => /\ "text" \in Kinds(img)
             /\ img.ops[Len(img.ops)].kind = "text"
    /\ \A f \in FinishedFrames :
          /\ Cardinality(OpsOfKind(f, "text")) = 1
          /\ TheOp(f, "text").font = ExpectedFont

C9_Witness ==
    /\ FrameDone
    /\ ~fonts.bold
    /\ ~fonts.regular
    /\ TheOp(img, "text").font = "default"

----------------------------------------------------------------------------
(* C10 *)

OnCanvas(pt, s) ==
    /\ 0 <= pt[1] /\ pt[1] <= Px(s - 1)
    /\ 0 <= pt[2] /\ pt[2] <= Px(s - 1)

CanvasKinds == {"shadow", "page", "fold", "accent", "label"}

\* C10: in every finished frame every vertex of the shadow, page, fold,
\* accent bar and label bar lies on the canvas (0..s-1 in both coordinates);
\* the shadow's right edge is page_right + shadow_offset <= s - 1 and the
\* accent bar's right edge is left of the fold cut at page_right - fold.
C10_ShapesOnCanvas ==
    \A f \in FinishedFrames :
        /\ \A i \in 1..Len(f.ops) :
              f.ops[i].kind \in CanvasKinds =>
                  \A j \in 1..Len(f.ops[i].pts) : OnCanvas(f.ops[i].pts[j], f.size)
        /\ f.size >= 32 =>
              /\ TheOp(f, "shadow").pts[3][1] > TheOp(f, "page").pts[3][1]
              /\ TheOp(f, "shadow").pts[3][1] <= Px(f.size - 1)
              /\ TheOp(f, "accent").pts[2][1] < TheOp(f, "page").pts[2][1]

C10_Witness ==
    /\ \E f \in FinishedFrames : f.size = 256 /\ "shadow" \in Kinds(f)
    /\ \E f \in FinishedFrames : f.size = 32 /\ "accent" \in Kinds(f)

====
